---- MODULE Spec2Model ----
(***************************************************************************)
(* Model of src/python/image-resizing-s3.py: the module-level              *)
(* configuration, lambda_handler, handle_s3_record and                     *)
(* resize_and_compress_image.                                              *)
(*                                                                         *)
(* Python floats are IEEE-754 binary64 values.  They are modelled exactly: *)
(* a float is a sign, a 53-bit significand (most significant bit first)    *)
(* and the exponent of its leading bit, and every operation rounds to      *)
(* nearest, ties to even, as the hardware does.                            *)
(***************************************************************************)
EXTENDS Integers, Sequences, FiniteSets, TLC

(* ------------------------------ bounds --------------------------------- *)
\* Image widths and heights 1..MaxDim are enumerated, next to ExtraDims.
MaxDim == 3
\* Longest list of records in one event.
MaxRecords == 2

(* --------------------------- Python values ----------------------------- *)
None == [some |-> FALSE]
Some(v) == [some |-> TRUE, val |-> v]

\* Truth value of an optional string: None and "" are falsy.
Truthy(o) == o.some /\ o.val # ""

Max(a, b) == IF a >= b THEN a ELSE b

(* ------------------------- binary64 arithmetic ------------------------- *)
Prec == 53

\* Significands are kept as bit strings and multiplied and divided in
\* limbs of LimbBits bits, so that every intermediate value fits an integer.
LimbBits == 14
LimbBase == 2 ^ LimbBits

RECURSIVE IntToBits(_)
IntToBits(n) == IF n = 0 THEN <<>> ELSE Append(IntToBits(n \div 2), n % 2)

RECURSIVE BitsToInt(_)
BitsToInt(b) ==
    IF b = <<>> THEN 0 ELSE 2 * BitsToInt(SubSeq(b, 1, Len(b) - 1)) + b[Len(b)]

Bit(q, i) == IF i <= Len(q) THEN q[i] ELSE 0

\* The bit string without its leading zeros.
Normalize(b) ==
    IF \A i \in 1..Len(b) : b[i] = 0 THEN <<>>
    ELSE LET f == CHOOSE i \in 1..Len(b) : b[i] = 1 /\ \A j \in 1..(i - 1) : b[j] = 0
         IN SubSeq(b, f, Len(b))

\* The integer with bit string b as limbs, most significant first.
BitsToLimbs(b) ==
    LET n == (Len(b) + LimbBits - 1) \div LimbBits
        pad == n * LimbBits - Len(b)
        padded == [i \in 1..(n * LimbBits) |-> IF i <= pad THEN 0 ELSE b[i - pad]]
    IN [k \in 1..n |-> BitsToInt(SubSeq(padded, (k - 1) * LimbBits + 1, k * LimbBits))]

LimbsToBits(l) ==
    [i \in 1..(Len(l) * LimbBits) |->
        (l[(i - 1) \div LimbBits + 1] \div 2 ^ (LimbBits - 1 - ((i - 1) % LimbBits))) % 2]

FZero == [kind |-> "zero", neg |-> FALSE, m |-> <<>>, e |-> 0]
FNan == [kind |-> "nan", neg |-> FALSE, m |-> <<>>, e |-> 0]
FInf(neg) == [kind |-> "inf", neg |-> neg, m |-> <<>>, e |-> 0]

\* Round the bit string q (leading bit 1, of weight 2^e) to Prec bits,
\* to nearest, ties to even; sticky tells that nonzero bits follow q.
RoundNE(q, sticky, e, neg) ==
    LET head == [i \in 1..Prec |-> Bit(q, i)]
        guard == Bit(q, Prec + 1)
        st == sticky \/ \E k \in (Prec + 2)..Len(q) : q[k] = 1
        up == guard = 1 /\ (st \/ head[Prec] = 1)
        zeros == {i \in 1..Prec : head[i] = 0}
    IN IF ~up THEN [kind |-> "num", neg |-> neg, m |-> head, e |-> e]
       ELSE IF zeros = {}
            THEN [kind |-> "num", neg |-> neg, e |-> e + 1,
                  m |-> [i \in 1..Prec |-> IF i = 1 THEN 1 ELSE 0]]
            ELSE LET k == CHOOSE i \in zeros : \A j \in zeros : j <= i
                 IN [kind |-> "num", neg |-> neg, e |-> e,
                     m |-> [i \in 1..Prec |->
                               IF i < k THEN head[i] ELSE IF i = k THEN 1 ELSE 0]]

\* Quotient limbs and remainder of the limbs l divided by d (1 <= d < 2^16).
RECURSIVE DivLimbs(_, _, _, _, _)
DivLimbs(l, d, k, r, q) ==
    IF k > Len(l) THEN [quot |-> q, rem |-> r]
    ELSE LET t == r * LimbBase + l[k]
         IN DivLimbs(l, d, k + 1, t % d, Append(q, t \div d))

\* Limbs appended to a dividend so that the quotient has more than Prec bits.
GuardLimbs == 5

\* The float nearest to n / d, where the bit string nb (leading bit of
\* weight 2^e) is n.
LongDiv(nb, d, e, neg) ==
    LET dividend == BitsToLimbs(nb) \o [k \in 1..GuardLimbs |-> 0]
        res == DivLimbs(dividend, d, 1, 0, <<>>)
        q == Normalize(LimbsToBits(res.quot))
    IN RoundNE(q, res.rem # 0, e - (Len(nb) - 1) - GuardLimbs * LimbBits + Len(q) - 1, neg)

\* The float nearest to a/b (a >= 0, 1 <= b < 2^16): what a correctly
\* rounded conversion of the decimal literal a/b yields.
FromRatio(a, b, neg) ==
    IF a = 0 THEN FZero
    ELSE LongDiv(IntToBits(a), b, Len(IntToBits(a)) - 1, neg)

\* x / float(d) for an integer 1 <= d < 2^16.
FDivInt(x, d) ==
    IF x.kind # "num" THEN x ELSE LongDiv(x.m, d, x.e, x.neg)

\* The limbs l times w (1 <= w < 2^16): the carry out and the product limbs.
RECURSIVE MulLimbs(_, _, _, _, _)
MulLimbs(l, w, k, carry, acc) ==
    IF k = 0 THEN [carry |-> carry, limbs |-> acc]
    ELSE LET t == w * l[k] + carry
         IN MulLimbs(l, w, k - 1, t \div LimbBase, <<t % LimbBase>> \o acc)

\* float(w) * x for an integer 1 <= w < 2^16 (float(w) is exact).
FMulInt(x, w) ==
    IF x.kind # "num" THEN x
    ELSE LET l == BitsToLimbs(x.m)
             res == MulLimbs(l, w, Len(l), 0, <<>>)
             p == Normalize(IntToBits(res.carry) \o LimbsToBits(res.limbs))
         IN RoundNE(p, FALSE, x.e - (Prec - 1) + Len(p) - 1, x.neg)

\* Python int(x) for a float x >= 0: truncation.
FTrunc(x) ==
    IF x.kind # "num" \/ x.e < 0 THEN 0 ELSE BitsToInt(SubSeq(x.m, 1, x.e + 1))

\* 0 < x
FPositive(x) == x.kind \in {"num", "inf"} /\ ~x.neg

\* x <= 1
FLeqOne(x) ==
    \/ x.kind = "zero"
    \/ x.kind \in {"num", "inf"} /\ x.neg
    \/ x.kind = "num" /\ x.e < 0
    \/ x.kind = "num" /\ x.e = 0 /\ \A k \in 2..Prec : x.m[k] = 0

(* ------------------------ float(str) and int(str) ---------------------- *)
\* Strings holding numbers are sequences of one-character strings.
DigitChars == {"0", "1", "2", "3", "4", "5", "6", "7", "8", "9"}

DigitVal(c) ==
    CASE c = "0" -> 0 [] c = "1" -> 1 [] c = "2" -> 2 [] c = "3" -> 3
      [] c = "4" -> 4 [] c = "5" -> 5 [] c = "6" -> 6 [] c = "7" -> 7
      [] c = "8" -> 8 [] c = "9" -> 9

RECURSIVE DigitsToInt(_)
DigitsToInt(s) ==
    IF s = <<>> THEN 0
    ELSE 10 * DigitsToInt(SubSeq(s, 1, Len(s) - 1)) + DigitVal(s[Len(s)])

RECURSIVE Pow10(_)
Pow10(n) == IF n = 0 THEN 1 ELSE 10 * Pow10(n - 1)

AllDigits(s) == \A i \in 1..Len(s) : s[i] \in DigitChars

\* str.strip() as float() and int() apply it to their argument.
RECURSIVE Strip(_)
Strip(s) ==
    IF s # <<>> /\ s[1] = " " THEN Strip(Tail(s))
    ELSE IF s # <<>> /\ s[Len(s)] = " " THEN Strip(SubSeq(s, 1, Len(s) - 1))
    ELSE s

FirstIndex(s, cs) ==
    IF \E i \in 1..Len(s) : s[i] \in cs
    THEN CHOOSE i \in 1..Len(s) : s[i] \in cs /\ \A j \in 1..(i - 1) : s[j] \notin cs
    ELSE 0

ValueError == [err |-> TRUE]
Parsed(v) == [err |-> FALSE, val |-> v]

\* float(s): optional sign, then "nan", "inf" or a decimal literal
\* digits [. digits] [e [sign] digits]; anything else raises ValueError.
PyFloat(s) ==
    LET t == Strip(s)
        signed == t # <<>> /\ t[1] \in {"+", "-"}
        neg == signed /\ t[1] = "-"
        body == IF signed THEN Tail(t) ELSE t
        ePos == FirstIndex(body, {"e", "E"})
        mant == IF ePos = 0 THEN body ELSE SubSeq(body, 1, ePos - 1)
        expo == IF ePos = 0 THEN <<>> ELSE SubSeq(body, ePos + 1, Len(body))
        eSigned == expo # <<>> /\ expo[1] \in {"+", "-"}
        eDigits == IF eSigned THEN Tail(expo) ELSE expo
        dot == FirstIndex(mant, {"."})
        ip == IF dot = 0 THEN mant ELSE SubSeq(mant, 1, dot - 1)
        fp == IF dot = 0 THEN <<>> ELSE SubSeq(mant, dot + 1, Len(mant))
        E == IF ePos = 0 THEN 0
             ELSE IF eSigned /\ expo[1] = "-" THEN 0 - DigitsToInt(eDigits)
             ELSE DigitsToInt(eDigits)
        k == E - Len(fp)
    IN IF body = <<"n", "a", "n">> THEN Parsed(FNan)
       ELSE IF body = <<"i", "n", "f">> THEN Parsed(FInf(neg))
       ELSE IF \/ ~AllDigits(ip) \/ ~AllDigits(fp) \/ Len(ip) + Len(fp) = 0
               \/ ePos # 0 /\ (eDigits = <<>> \/ ~AllDigits(eDigits))
            THEN ValueError
       ELSE Parsed(FromRatio(DigitsToInt(ip \o fp) * Pow10(Max(k, 0)),
                             Pow10(Max(0 - k, 0)), neg))

\* int(s): optional sign and decimal digits; anything else raises ValueError.
PyInt(s) ==
    LET t == Strip(s)
        signed == t # <<>> /\ t[1] \in {"+", "-"}
        body == IF signed THEN Tail(t) ELSE t
    IN IF body = <<>> \/ ~AllDigits(body) THEN ValueError
       ELSE Parsed(IF signed /\ t[1] = "-" THEN 0 - DigitsToInt(body)
                   ELSE DigitsToInt(body))

(* ---------------------- module-level configuration --------------------- *)
\* os.environ.get(name, default)
EnvGet(environ, name, default) ==
    IF name \in DOMAIN environ THEN environ[name] ELSE default

\* os.environ.get(name)
EnvGetOpt(environ, name) ==
    IF name \in DOMAIN environ THEN Some(environ[name]) ELSE None

DefaultScale == FromRatio(1, 2, FALSE)
DefaultQuality == 75

ResizeInRangeClosed(r) == FLeqOne(r) /\ r.kind # "nan" /\ ~r.neg

\* Line 24: 0 < RESIZE_PERCENTAGE <= 1.
ResizeInRange(r) == FPositive(r) /\ FLeqOne(r)

\* Lines 18 and 22-28.
LoadResize(environ) ==
    LET p == PyFloat(EnvGet(environ, "RESIZE_PERCENTAGE", <<"5", "0">>))
    IN IF p.err THEN DefaultScale
       ELSE LET r == FDivInt(p.val, 100)
            IN IF ~ResizeInRange(r) THEN DefaultScale ELSE r

QualityInRange(q) == 0 <= q /\ q <= 100

\* Lines 19 and 31-37.
LoadQuality(environ) ==
    LET p == PyInt(EnvGet(environ, "JPEG_QUALITY", <<"7", "5">>))
    IN IF p.err THEN DefaultQuality
       ELSE IF ~QualityInRange(p.val) THEN DefaultQuality ELSE p.val

(* ---------------------- resize_and_compress_image ---------------------- *)
\* Encoded image bytes are modelled by what a decoder finds in them:
\* whether they decode, the container format, the pixel mode and the size.
Corrupt == [ok |-> FALSE, format |-> "", mode |-> "", size |-> <<0, 0>>]
Encoded(f, md, w, h) == [ok |-> TRUE, format |-> f, mode |-> md, size |-> <<w, h>>]

\* Image.open: the decoded image carries the format of the file it came from.
ImageOpen(data) == [format |-> Some(data.format), mode |-> data.mode, size |-> data.size]

\* Image.resize returns a new image.  Pillow sets the format attribute only
\* on images read from a file: "for images created by the library itself
\* (via a factory function, or by running a method on an existing image),
\* this attribute is set to None".
ImageResize(image, size) ==
    [format |-> None, mode |-> image.mode, size |-> size]

\* Pixel modes each encoder can write.
WritableModes(fmt) ==
    CASE fmt = "JPEG" -> {"L", "RGB"}
      [] fmt = "PNG" -> {"L", "RGB", "RGBA", "P"}
      [] fmt = "GIF" -> {"L", "RGB", "RGBA", "P"}

\* Formats whose encoder reads the quality parameter.
QualityFormats == {"JPEG"}

\* Image.save(buffer, format=fmt, **params): raises OSError when the
\* encoder cannot write the pixel mode; unknown parameters are ignored.
ImageSave(image, fmt, params) ==
    IF image.mode \notin WritableModes(fmt) THEN [raised |-> "OSError"]
    ELSE [raised |-> "",
          bytes |-> [ok |-> TRUE, format |-> fmt, mode |-> image.mode,
                     size |-> image.size,
                     quality |-> IF fmt \in QualityFormats /\ "quality" \in DOMAIN params
                                 THEN Some(params["quality"]) ELSE None]]

NewSizeNoClamp(original, resize_percentage) ==
    FTrunc(FMulInt(resize_percentage, original))

\* x rounded to the nearest integer, halves upwards (x >= 0).
FRoundHalfUp(x) ==
    IF x.kind # "num" \/ x.e < -1 THEN 0
    ELSE IF x.e = -1 THEN 1
    ELSE IF x.e + 1 < Prec /\ x.m[x.e + 2] = 1
         THEN BitsToInt(SubSeq(x.m, 1, x.e + 1)) + 1
         ELSE BitsToInt(SubSeq(x.m, 1, x.e + 1))

NewSizeRounded(original, resize_percentage) ==
    Max(1, FRoundHalfUp(FMulInt(resize_percentage, original)))

\* Lines 146-147: max(1, int(original * resize_percentage)).
NewSize(original, resize_percentage) ==
    Max(1, FTrunc(FMulInt(resize_percentage, original)))

\* Lines 137-170.  The result is either the exception raised or the tuple
\* returned.
resize_and_compress_image(image_data, resize_percentage, quality) ==
    IF ~image_data.ok THEN [raised |-> "UnidentifiedImageError"]
    ELSE
      LET image == ImageOpen(image_data)
          original_width == image.size[1]
          original_height == image.size[2]
          new_width == NewSize(original_width, resize_percentage)
          new_height == NewSize(original_height, resize_percentage)
          resized_image == ImageResize(image, <<new_width, new_height>>)
          save_format == IF resized_image.format.some
                         THEN resized_image.format.val ELSE "JPEG"
          withQ == ImageSave(resized_image, save_format, [quality |-> quality])
          saved == IF save_format = "JPEG" THEN withQ
                   ELSE IF withQ.raised = "TypeError"
                        THEN ImageSave(resized_image, save_format, <<>>)
                        ELSE withQ
      IN IF saved.raised # "" THEN [raised |-> saved.raised]
         ELSE [raised |-> "", buffer |-> saved.bytes,
               original_width |-> original_width,
               original_height |-> original_height,
               new_width |-> new_width, new_height |-> new_height]

(* ------------------------------- inputs -------------------------------- *)
\* Settings of RESIZE_PERCENTAGE that are numbers p with 0 < p <= 100,
\* each with the value a/b it denotes.
ResizeValid ==
    { [text |-> <<"5", "0">>, a |-> 50, b |-> 1],
      [text |-> <<"1", "0", "0">>, a |-> 100, b |-> 1],
      [text |-> <<"1">>, a |-> 1, b |-> 1],
      [text |-> <<"1", "0">>, a |-> 10, b |-> 1],
      [text |-> <<"2", "9">>, a |-> 29, b |-> 1],
      [text |-> <<"3", "5">>, a |-> 35, b |-> 1],
      [text |-> <<"6", "0">>, a |-> 60, b |-> 1],
      [text |-> <<"1", "2", ".", "5">>, a |-> 125, b |-> 10],
      [text |-> <<"3", "3", ".", "3">>, a |-> 333, b |-> 10],
      [text |-> <<" ", "7", "5", " ">>, a |-> 75, b |-> 1],
      [text |-> <<"2", "e", "1">>, a |-> 20, b |-> 1],
      [text |-> <<"+", ".", "5">>, a |-> 1, b |-> 2] }

\* Settings of RESIZE_PERCENTAGE that are malformed or out of range.
ResizeInvalid ==
    { <<>>, <<"a", "b", "c">>, <<"0">>, <<"-", "1", "0">>, <<"1", "5", "0">>,
      <<"1", "0", "0", ".", "5">>, <<"n", "a", "n">>, <<"i", "n", "f">>,
      <<"1", "e", "3">>, <<"5", " ", "0">>, <<"5", "0", "%">> }

\* Settings of JPEG_QUALITY that are integers in 0..100, with their value.
QualityValid ==
    { [text |-> <<"7", "5">>, n |-> 75],
      [text |-> <<"0">>, n |-> 0],
      [text |-> <<"1", "0", "0">>, n |-> 100],
      [text |-> <<" ", "9", "0">>, n |-> 90],
      [text |-> <<"+", "5">>, n |-> 5] }

\* Settings of JPEG_QUALITY that are malformed or out of range.
QualityInvalid ==
    { <<>>, <<"a", "b", "c">>, <<"7", "5", ".", "5">>, <<"-", "1">>,
      <<"1", "0", "1">>, <<"7", "e", "1">> }

Texts(S) == {v.text : v \in S}
Opt(S) == {None} \cup {Some(v) : v \in S}

\* The process environment holding the given optional settings.
MkEnv(rp, q, b, t) ==
    LET names == {n \in {"RESIZE_PERCENTAGE", "JPEG_QUALITY",
                         "DESTINATION_BUCKET_NAME", "SNS_TOPIC_ARN"} :
                     CASE n = "RESIZE_PERCENTAGE" -> rp.some
                       [] n = "JPEG_QUALITY" -> q.some
                       [] n = "DESTINATION_BUCKET_NAME" -> b.some
                       [] n = "SNS_TOPIC_ARN" -> t.some}
    IN [n \in names |-> CASE n = "RESIZE_PERCENTAGE" -> rp.val
                          [] n = "JPEG_QUALITY" -> q.val
                          [] n = "DESTINATION_BUCKET_NAME" -> b.val
                          [] n = "SNS_TOPIC_ARN" -> t.val]

DestBucket == "dest-bucket"
TopicArn == "arn:aws:sns:topic"
SourceBucket == "src-bucket"

\* Environments of the transform specification: every setting of the two
\* numeric variables, the bucket and the topic configured.
TransformEnvs ==
    {MkEnv(rp, q, Some(DestBucket), Some(TopicArn)) :
        rp \in Opt(Texts(ResizeValid) \cup ResizeInvalid),
        q \in Opt(Texts(QualityValid) \cup QualityInvalid)}

\* Environments of the pipeline specification.
PipelineEnvs ==
    {MkEnv(rp, q, b, t) :
        rp \in {None, Some(<<"2", "9">>), Some(<<"a", "b", "c">>)},
        q \in {None, Some(<<"1", "0", "1">>)},
        b \in {None, Some(""), Some(DestBucket)},
        t \in {None, Some(""), Some(TopicArn)}}

ExtraDims == {100, 800, 1000}
Dims == (1..MaxDim) \cup ExtraDims

\* Decodable images: container format and pixel mode pairs that exist.
FormatModes ==
    {<<"JPEG", "RGB">>, <<"JPEG", "L">>, <<"PNG", "RGB">>, <<"PNG", "RGBA">>,
     <<"GIF", "P">>}

\* Inputs of the transform: every size in one format, every format and
\* mode in a square and a flat size, and bytes that do not decode.
TransformImages ==
    {Corrupt}
        \cup {Encoded("JPEG", "RGB", w, h) : w \in Dims, h \in Dims}
        \cup {Encoded(fm[1], fm[2], w, w) : fm \in FormatModes, w \in Dims}
        \cup {Encoded(fm[1], fm[2], 100, 1) : fm \in FormatModes}

\* What s3.get_object may return: the object's bytes and its content type.
SourceObjects ==
    { [Body |-> Encoded("JPEG", "RGB", 1000, 800), ContentType |-> "image/jpeg"],
      [Body |-> Encoded("PNG", "RGBA", 3, 3), ContentType |-> "image/png"],
      [Body |-> Corrupt, ContentType |-> "text/plain"] }

Keys == {"a.jpg", "dir/b c.png"}

WellFormedRecords ==
    {[s3 |-> [bucket |-> [name |-> SourceBucket], object |-> [key |-> k]]] : k \in Keys}

MalformedRecords ==
    { [eventSource |-> "aws:s3"],
      [s3 |-> [object |-> [key |-> "a.jpg"]]],
      [s3 |-> [bucket |-> [arn |-> "arn:aws:s3:::src"], object |-> [key |-> "a.jpg"]]],
      [s3 |-> [bucket |-> [name |-> SourceBucket]]],
      [s3 |-> [bucket |-> [name |-> SourceBucket], object |-> [size |-> 10]]] }

RecordValues == WellFormedRecords \cup MalformedRecords

RECURSIVE SeqsUpTo(_, _)
SeqsUpTo(S, n) ==
    IF n = 0 THEN {<<>>}
    ELSE LET shorter == SeqsUpTo(S, n - 1)
         IN shorter \cup {Append(q, x) : q \in shorter, x \in S}

\* Events: a list of records under 'Records', or a single bare record.
Events ==
    {[Records |-> rs] : rs \in SeqsUpTo(RecordValues, MaxRecords)} \cup RecordValues

(* -------------------------------- state -------------------------------- *)
VARIABLES
    env,                      \* os.environ
    DESTINATION_BUCKET_NAME,  \* module globals, lines 13-37
    SNS_TOPIC_ARN,
    RESIZE_PERCENTAGE,
    JPEG_QUALITY,
    pc,                       \* position of the invocation
    event,                    \* the event lambda_handler was called with
    idx,                      \* index of the record being handled
    image_data,               \* downloaded bytes (None before the download)
    content_type,
    handed,                   \* arguments of the last resize_and_compress_image call
    transformed,              \* its result (None before the call)
    exc,                      \* the exception being handled or propagated
    bucket,                   \* destination store: <<Bucket, Key>> -> object
    published,                \* notifications the topic has accepted
    calls                     \* calls made to S3, SNS and the transform, in order

vars ==
    <<env, DESTINATION_BUCKET_NAME, SNS_TOPIC_ARN, RESIZE_PERCENTAGE, JPEG_QUALITY,
      pc, event, idx, image_data, content_type, handed, transformed, exc,
      bucket, published, calls>>

globals == <<env, DESTINATION_BUCKET_NAME, SNS_TOPIC_ARN, RESIZE_PERCENTAGE, JPEG_QUALITY>>

\* Lines 13-37: the module's globals once it is imported.
ModuleLoaded(environ) ==
    /\ env = environ
    /\ DESTINATION_BUCKET_NAME = EnvGetOpt(environ, "DESTINATION_BUCKET_NAME")
    /\ SNS_TOPIC_ARN = EnvGetOpt(environ, "SNS_TOPIC_ARN")
    /\ RESIZE_PERCENTAGE = LoadResize(environ)
    /\ JPEG_QUALITY = LoadQuality(environ)

NoInvocation ==
    /\ event = None
    /\ idx = 0
    /\ content_type = ""
    /\ handed = None
    /\ transformed = None
    /\ exc = ""
    /\ bucket = <<>>
    /\ published = <<>>
    /\ calls = <<>>

Init ==
    /\ \E environ \in PipelineEnvs : ModuleLoaded(environ)
    /\ pc = "idle"
    /\ image_data = None
    /\ NoInvocation

(* ---------------------------- lambda_handler --------------------------- *)
Records(ev) == IF "Records" \in DOMAIN ev THEN ev.Records ELSE <<ev>>

ConfigMissingBoth == ~Truthy(DESTINATION_BUCKET_NAME) /\ ~Truthy(SNS_TOPIC_ARN)

\* Line 43.
ConfigMissing == ~Truthy(DESTINATION_BUCKET_NAME) \/ ~Truthy(SNS_TOPIC_ARN)

\* Lines 39-48: the call of lambda_handler up to the first record.
Invoke ==
    /\ pc = "idle"
    /\ \E ev \in Events : event' = Some(ev)
    /\ IF ConfigMissing
       THEN pc' = "raised" /\ exc' = "ValueError" /\ idx' = idx
       ELSE pc' = "handle" /\ exc' = exc /\ idx' = 1
    /\ UNCHANGED <<globals, image_data, content_type, handed, transformed,
                   bucket, published, calls>>

\* Lines 55-58: every record handled.
Return ==
    /\ pc = "handle"
    /\ idx > Len(Records(event.val))
    /\ pc' = "returned"
    /\ UNCHANGED <<globals, event, idx, image_data, content_type, handed,
                   transformed, exc, bucket, published, calls>>

(* --------------------------- handle_s3_record -------------------------- *)
\* Lines 62-63.
WellFormed(record) ==
    /\ "s3" \in DOMAIN record
    /\ "bucket" \in DOMAIN record.s3
    /\ "name" \in DOMAIN record.s3.bucket
    /\ "object" \in DOMAIN record.s3
    /\ "key" \in DOMAIN record.s3.object

Current == Records(event.val)[idx]
source_bucket == Current.s3.bucket.name
object_key == Current.s3.object.key

Call(op, ok) == [op |-> op, rec |-> idx, ok |-> ok]

ValidateRecordRaise ==
    /\ pc = "handle"
    /\ idx <= Len(Records(event.val))
    /\ IF ~WellFormed(Current)
       THEN pc' = "raised" /\ exc' = "KeyError"
       ELSE pc' = "download" /\ exc' = exc
    /\ UNCHANGED <<globals, event, idx, image_data, content_type, handed,
                   transformed, bucket, published, calls>>

\* Lines 49-50 and 60-72: the next record enters handle_s3_record.
ValidateRecord ==
    /\ pc = "handle"
    /\ idx <= Len(Records(event.val))
    /\ IF ~WellFormed(Current)
       THEN pc' = "handle" /\ idx' = idx + 1
       ELSE pc' = "download" /\ idx' = idx
    /\ UNCHANGED <<globals, event, image_data, content_type, handed,
                   transformed, exc, bucket, published, calls>>

\* Lines 77-80: s3.get_object returns an object or raises.
Download ==
    /\ pc = "download"
    /\ \/ \E obj \in SourceObjects :
            /\ image_data' = Some(obj.Body)
            /\ content_type' = obj.ContentType
            /\ calls' = Append(calls, Call("get_object", TRUE))
            /\ pc' = "transform"
            /\ exc' = exc
       \/ /\ calls' = Append(calls, Call("get_object", FALSE))
          /\ pc' = "except"
          /\ exc' = "ClientError"
          /\ UNCHANGED <<image_data, content_type>>
    /\ UNCHANGED <<globals, event, idx, handed, transformed, bucket, published>>

TransformSwallow ==
    /\ pc = "transform"
    /\ LET r == resize_and_compress_image(image_data.val, RESIZE_PERCENTAGE, JPEG_QUALITY)
       IN /\ handed' = Some([scale |-> RESIZE_PERCENTAGE, quality |-> JPEG_QUALITY])
          /\ calls' = Append(calls, Call("resize", r.raised = ""))
          /\ IF r.raised # ""
             THEN pc' = "handle" /\ idx' = idx + 1 /\ transformed' = transformed
             ELSE pc' = "upload" /\ idx' = idx /\ transformed' = Some(r)
    /\ UNCHANGED <<globals, event, image_data, content_type, exc, bucket, published>>

\* Lines 86-92: the transform; an exception is logged and re-raised.
Transform ==
    /\ pc = "transform"
    /\ LET r == resize_and_compress_image(image_data.val, RESIZE_PERCENTAGE, JPEG_QUALITY)
       IN /\ handed' = Some([scale |-> RESIZE_PERCENTAGE, quality |-> JPEG_QUALITY])
          /\ calls' = Append(calls, Call("resize", r.raised = ""))
          /\ IF r.raised # ""
             THEN pc' = "except" /\ exc' = r.raised /\ transformed' = transformed
             ELSE pc' = "upload" /\ exc' = exc /\ transformed' = Some(r)
    /\ UNCHANGED <<globals, event, idx, image_data, content_type, bucket, published>>

PutArgs(dest_bucket, destination_key) ==
    [Bucket |-> dest_bucket, Key |-> destination_key,
     Body |-> transformed.val.buffer, ContentType |-> content_type]

\* The store after put_object(args): the object replaces any under its key.
Put(store, args) ==
    [k \in DOMAIN store \cup {<<args.Bucket, args.Key>>} |->
        IF k = <<args.Bucket, args.Key>>
        THEN [Body |-> args.Body, ContentType |-> args.ContentType, rec |-> idx]
        ELSE store[k]]

UploadArgsSameKey == PutArgs(DESTINATION_BUCKET_NAME.val, object_key)

\* Lines 96-103: the arguments of s3.put_object.
UploadArgs == PutArgs(DESTINATION_BUCKET_NAME.val, "resized/" \o object_key)

\* Lines 96-104: s3.put_object stores the object or raises.
Upload ==
    /\ pc = "upload"
    /\ \/ /\ bucket' = Put(bucket, UploadArgs)
          /\ calls' = Append(calls, Call("put_object", TRUE) @@ [args |-> UploadArgs])
          /\ pc' = "publish"
          /\ exc' = exc
       \/ /\ calls' = Append(calls, Call("put_object", FALSE) @@ [args |-> UploadArgs])
          /\ pc' = "except"
          /\ exc' = "ClientError"
          /\ bucket' = bucket
    /\ UNCHANGED <<globals, event, idx, image_data, content_type, handed,
                   transformed, published>>

\* Lines 108-116: the success notification, then back to the loop.
PublishSuccess ==
    /\ pc = "publish"
    /\ \/ /\ published' = Append(published,
                 [TopicArn |-> SNS_TOPIC_ARN.val, key |-> object_key, rec |-> idx,
                  Subject |-> "Image Resizing Success Notification"])
          /\ calls' = Append(calls, Call("publish_success", TRUE))
          /\ pc' = "handle"
          /\ idx' = idx + 1
          /\ exc' = exc
       \/ /\ calls' = Append(calls, Call("publish_success", FALSE))
          /\ pc' = "except"
          /\ exc' = "ClientError"
          /\ UNCHANGED <<published, idx>>
    /\ UNCHANGED <<globals, event, image_data, content_type, handed, transformed, bucket>>

PublishErrorContinue ==
    /\ pc = "except"
    /\ \/ /\ published' = Append(published,
                 [TopicArn |-> SNS_TOPIC_ARN.val, key |-> object_key, rec |-> idx,
                  Subject |-> "Image Resizing Error Notification"])
          /\ calls' = Append(calls, Call("publish_error", TRUE))
       \/ /\ calls' = Append(calls, Call("publish_error", FALSE))
          /\ published' = published
    /\ pc' = "handle"
    /\ idx' = idx + 1
    /\ UNCHANGED <<globals, event, image_data, content_type, handed,
                   transformed, exc, bucket>>

\* Lines 118-135: the error notification, then the exception is raised again
\* and leaves lambda_handler; an exception of sns.publish leaves it instead.
PublishError ==
    /\ pc = "except"
    /\ \/ /\ published' = Append(published,
                 [TopicArn |-> SNS_TOPIC_ARN.val, key |-> object_key, rec |-> idx,
                  Subject |-> "Image Resizing Error Notification"])
          /\ calls' = Append(calls, Call("publish_error", TRUE))
          /\ exc' = exc
       \/ /\ calls' = Append(calls, Call("publish_error", FALSE))
          /\ exc' = "ClientError"
          /\ published' = published
    /\ pc' = "raised"
    /\ UNCHANGED <<globals, event, idx, image_data, content_type, handed,
                   transformed, bucket>>

Next ==
    \/ Invoke
    \/ Return
    \/ ValidateRecord
    \/ Download
    \/ Transform
    \/ Upload
    \/ PublishSuccess
    \/ PublishError

Spec == Init /\ [][Next]_vars

(* ---------------- the transform and the configuration alone ------------ *)
InitTransform ==
    /\ \E environ \in TransformEnvs : ModuleLoaded(environ)
    /\ pc = "transform"
    /\ image_data \in {Some(d) : d \in TransformImages}
    /\ NoInvocation

\* Line 88 alone: resize_and_compress_image applied to image_data with the
\* configured scale and quality.
ApplyTransform ==
    /\ pc = "transform"
    /\ event = None
    /\ handed' = Some([scale |-> RESIZE_PERCENTAGE, quality |-> JPEG_QUALITY])
    /\ transformed' = Some(resize_and_compress_image(image_data.val, RESIZE_PERCENTAGE,
                                                     JPEG_QUALITY))
    /\ pc' = "applied"
    /\ UNCHANGED <<globals, event, idx, image_data, content_type, exc, bucket,
                   published, calls>>

NextTransform == ApplyTransform

SpecTransform == InitTransform /\ [][NextTransform]_vars

(* ------------------------- vocabulary of the claims -------------------- *)
FromInt(n) == FromRatio(n, 1, FALSE)

BitsLeq(a, b) ==
    a = b \/ \E i \in 1..Len(a) : a[i] < b[i] /\ \A j \in 1..(i - 1) : a[j] = b[j]

\* x <= y for floats x, y >= 0.
FLeq(x, y) ==
    \/ x.kind = "zero" /\ y.kind \in {"zero", "num"} /\ ~y.neg
    \/ /\ x.kind = "num" /\ y.kind = "num" /\ ~x.neg /\ ~y.neg
       /\ x.e < y.e \/ (x.e = y.e /\ BitsLeq(x.m, y.m))

FLess(x, y) == FLeq(x, y) /\ x # y

\* n = max(1, floor(x)) for a float x >= 0.
IsFloorClamped(n, x) ==
    IF FLess(x, FromInt(1)) THEN n = 1
    ELSE FLeq(FromInt(n), x) /\ FLess(x, FromInt(n + 1))

\* r is an integer nearest to the float x > 0: 2r - 1 <= 2x <= 2r + 1.
IsNearest(r, x) ==
    LET twice == [x EXCEPT !.e = x.e + 1]
    IN /\ r = 0 \/ FLeq(FromInt(2 * r - 1), twice)
       /\ FLeq(twice, FromInt(2 * r + 1))

Applied == pc = "applied" /\ transformed.val.raised = ""
Source == image_data.val
Result == transformed.val
Scale == handed.val.scale
NewDim(axis) == IF axis = 1 THEN Result.new_width ELSE Result.new_height

\* C1: for every source of width and height >= 1 and every valid scale s,
\* the returned new width and height are max(1, floor(dimension * s)), the
\* product being the float product the code computes; so both are >= 1, an
\* axis of size 1 stays 1, and s = 1 returns the source's dimensions.
C1_FloorClamp ==
    Applied =>
        \A axis \in {1, 2} :
            LET d == Source.size[axis]
                n == NewDim(axis)
            IN /\ IsFloorClamped(n, FMulInt(Scale, d))
               /\ n >= 1
               /\ d = 1 => n = 1
               /\ Scale = FromInt(1) => n = d
               /\ Result.buffer.size[axis] = n

\* A 100 x 1 image at 29%: 100 * 0.29 is 28.999999999999996 in floats, so
\* the width is 28; the height is clamped to 1.
C1_Witness ==
    /\ Applied
    /\ Source.size = <<100, 1>>
    /\ Scale = FDivInt(FromInt(29), 100)
    /\ Result.new_width = 28
    /\ Result.new_height = 1

\* C7 as stated: each derived dimension is max(1, round(dimension * s)),
\* round being rounding to a nearest integer.
C7_Rounded ==
    Applied =>
        \A axis \in {1, 2} :
            \E r \in 0..Source.size[axis] :
                /\ IsNearest(r, FMulInt(Scale, Source.size[axis]))
                /\ NewDim(axis) = Max(1, r)

\* C7 amended: each derived dimension is max(1, floor(dimension * s)): the
\* product is rounded down, never to the nearest integer.
C7_Floor ==
    Applied => \A axis \in {1, 2} : IsFloorClamped(NewDim(axis), FMulInt(Scale, Source.size[axis]))

\* A width of 3 at 60%: 1.8 becomes 1, not 2.
C7_Witness ==
    /\ Applied
    /\ Source.size[1] = 3
    /\ Scale = FDivInt(FromInt(60), 100)
    /\ Result.new_width = 1

\* C2: the output is encoded in the container format of the decoded source
\* (a decoded source always has a format), JPEG being used only when that
\* format is unknown.
C2_SameFormat ==
    Applied => Result.buffer.format = Source.format

IsSet(name) == name \in DOMAIN env

\* C4: whatever RESIZE_PERCENTAGE and JPEG_QUALITY are set to, the scale
\* handed to the transform is in (0, 1] and the quality in 0..100; a valid
\* setting is used as given (scale = percentage / 100), an unset, malformed
\* or out-of-range one is replaced by the default (0.5, 75).
C4_Validated ==
    handed.some =>
        /\ FLess(FZero, handed.val.scale) /\ FLeq(handed.val.scale, FromInt(1))
        /\ handed.val.quality \in 0..100
        /\ \A v \in ResizeValid :
              IsSet("RESIZE_PERCENTAGE") /\ env["RESIZE_PERCENTAGE"] = v.text
                  => handed.val.scale = FDivInt(FromRatio(v.a, v.b, FALSE), 100)
        /\ ~IsSet("RESIZE_PERCENTAGE") \/ env["RESIZE_PERCENTAGE"] \in ResizeInvalid
              => handed.val.scale = FromRatio(1, 2, FALSE)
        /\ \A v \in QualityValid :
              IsSet("JPEG_QUALITY") /\ env["JPEG_QUALITY"] = v.text
                  => handed.val.quality = v.n
        /\ ~IsSet("JPEG_QUALITY") \/ env["JPEG_QUALITY"] \in QualityInvalid
              => handed.val.quality = 75

\* RESIZE_PERCENTAGE=0 is replaced by 0.5 and JPEG_QUALITY=" 90" is used.
C4_Witness ==
    /\ pc = "applied"
    /\ IsSet("RESIZE_PERCENTAGE") /\ env["RESIZE_PERCENTAGE"] = <<"0">>
    /\ IsSet("JPEG_QUALITY") /\ env["JPEG_QUALITY"] = <<" ", "9", "0">>
    /\ handed.val.scale = FromRatio(1, 2, FALSE)
    /\ handed.val.quality = 90

(* --------------------------- pipeline claims --------------------------- *)
Recs == IF event.some THEN Records(event.val) ELSE <<>>
Terminal == pc \in {"raised", "returned"}
ConfigUnset ==
    \/ ~IsSet("DESTINATION_BUCKET_NAME") \/ env["DESTINATION_BUCKET_NAME"] = ""
    \/ ~IsSet("SNS_TOPIC_ARN") \/ env["SNS_TOPIC_ARN"] = ""

CallIdx(op, i) == {n \in 1..Len(calls) : calls[n].op = op /\ calls[n].rec = i}
Did(op, i) == CallIdx(op, i) # {}
DidOk(op, i) == \E n \in CallIdx(op, i) : calls[n].ok
DidFail(op, i) == \E n \in CallIdx(op, i) : ~calls[n].ok
ErrorSubject == "Image Resizing Error Notification"
SuccessSubject == "Image Resizing Success Notification"
PublishedFor(subject, i) ==
    \E n \in 1..Len(published) : published[n].rec = i /\ published[n].Subject = subject
StoredFor(i) == \E k \in DOMAIN bucket : bucket[k].rec = i
GoodRecord(i) == Recs[i] \in WellFormedRecords
KeyOf(i) == Recs[i].s3.object.key

\* C3 as stated: when the transform raises for a well-formed record there
\* is one transform call, nothing is stored, no success is published, a
\* failure notification is published and lambda_handler ends with an
\* exception, never with status 200.
C3_FailurePublished ==
    \A i \in 1..Len(Recs) :
        DidFail("resize", i) =>
            /\ Cardinality(CallIdx("resize", i)) = 1
            /\ ~Did("put_object", i) /\ ~StoredFor(i)
            /\ ~PublishedFor(SuccessSubject, i)
            /\ pc # "returned"
            /\ pc = "raised" => PublishedFor(ErrorSubject, i)

\* C3 amended: as stated, but the failure notification is sent once and is
\* published exactly when that sns.publish call does not raise itself.
C3_FailureSent ==
    \A i \in 1..Len(Recs) :
        DidFail("resize", i) =>
            /\ Cardinality(CallIdx("resize", i)) = 1
            /\ ~Did("put_object", i) /\ ~StoredFor(i)
            /\ ~PublishedFor(SuccessSubject, i)
            /\ pc \in {"except", "raised"}
            /\ pc = "raised" =>
                  /\ Cardinality(CallIdx("publish_error", i)) = 1
                  /\ PublishedFor(ErrorSubject, i) <=> DidOk("publish_error", i)
                  /\ exc # ""

C3_Witness ==
    /\ pc = "raised"
    /\ Len(Recs) = 1
    /\ GoodRecord(1)
    /\ DidFail("resize", 1)
    /\ exc = "OSError"
    /\ PublishedFor(ErrorSubject, 1)

FailedAt(i) ==
    \E n \in 1..Len(calls) : calls[n].rec = i /\ ~calls[n].ok /\ calls[n].op # "publish_error"

\* C5 as stated: a failure while one record is processed does not abort the
\* batch; every later well-formed record is still downloaded.
C5_Isolated ==
    Terminal =>
        \A i \in 1..Len(Recs) :
            FailedAt(i) => \A j \in (i + 1)..Len(Recs) : GoodRecord(j) => Did("get_object", j)

\* C5 amended: a failure while one record is processed is reported for that
\* record and aborts the batch: no later record is processed, the records
\* before it were handled in full, and the invocation ends with the exception.
C5_Aborts ==
    \A i \in 1..Len(Recs) :
        FailedAt(i) =>
            /\ \A n \in 1..Len(calls) : calls[n].rec <= i
            /\ idx = i
            /\ \A j \in 1..(i - 1) : GoodRecord(j) => PublishedFor(SuccessSubject, j)
            /\ pc \in {"except", "raised"}
            /\ pc = "raised" => Cardinality(CallIdx("publish_error", i)) = 1

C5_Witness ==
    /\ pc = "raised"
    /\ Len(Recs) = 2
    /\ GoodRecord(1) /\ GoodRecord(2)
    /\ FailedAt(1)
    /\ PublishedFor(ErrorSubject, 1)
    /\ \A n \in 1..Len(calls) : calls[n].rec = 1

OpsOf(i) == SelectSeq(calls, LAMBDA c : c.rec = i /\ c.op # "publish_error")
StepOrder == <<"get_object", "resize", "put_object", "publish_success">>

\* C6: for a well-formed record the steps run in the order download,
\* transform, store, notify, each only after the one before it succeeded;
\* the store goes to the configured destination bucket under "resized/"
\* followed by the unmodified source key.
C6_Order ==
    /\ \A i \in 1..Len(Recs) :
          LET ops == OpsOf(i)
          IN /\ Len(ops) <= Len(StepOrder)
             /\ \A n \in 1..Len(ops) :
                   /\ ops[n].op = StepOrder[n]
                   /\ n < Len(ops) => ops[n].ok
             /\ \A n \in 1..Len(ops) :
                   ops[n].op = "put_object" =>
                       /\ ops[n].args.Bucket = env["DESTINATION_BUCKET_NAME"]
                       /\ ops[n].args.Key = "resized/" \o KeyOf(i)
             /\ StoredFor(i) => DidOk("put_object", i)
             /\ DidOk("put_object", i) =>
                   <<env["DESTINATION_BUCKET_NAME"], "resized/" \o KeyOf(i)>> \in DOMAIN bucket
             /\ PublishedFor(SuccessSubject, i) <=> DidOk("publish_success", i)
    /\ \A k \in DOMAIN bucket :
          /\ k[1] = env["DESTINATION_BUCKET_NAME"]
          /\ k[2] = "resized/" \o KeyOf(bucket[k].rec)

C6_Witness ==
    /\ pc = "returned"
    /\ Len(Recs) = 1
    /\ GoodRecord(1)
    /\ KeyOf(1) = "dir/b c.png"
    /\ <<DestBucket, "resized/dir/b c.png">> \in DOMAIN bucket
    /\ PublishedFor(SuccessSubject, 1)
    /\ [n \in 1..Len(calls) |-> calls[n].op] = StepOrder

\* C8: no record ends with both a stored derivative and a published failure
\* notification.
C8_NoFailureAfterStore ==
    \A i \in 1..Len(Recs) : ~(DidOk("put_object", i) /\ PublishedFor(ErrorSubject, i))

\* C9: a record lacking s3, s3.bucket.name or s3.object.key has no effect
\* and raises nothing: no call is made and nothing is stored or published
\* for it, the other records are still processed, and when no call fails
\* lambda_handler returns status 200.
C9_Skipped ==
    ~ConfigUnset =>
        /\ \A i \in 1..Len(Recs) :
              Recs[i] \in MalformedRecords =>
                  /\ \A n \in 1..Len(calls) : calls[n].rec # i
                  /\ \A n \in 1..Len(published) : published[n].rec # i
                  /\ ~StoredFor(i)
        /\ pc = "raised" => \E i \in 1..Len(Recs) : GoodRecord(i) /\ FailedAt(i)
        /\ Terminal /\ (\A n \in 1..Len(calls) : calls[n].ok) =>
              /\ pc = "returned"
              /\ \A i \in 1..Len(Recs) : GoodRecord(i) => PublishedFor(SuccessSubject, i)

C9_Witness ==
    /\ pc = "returned"
    /\ Len(Recs) = 2
    /\ Recs[1] \in MalformedRecords
    /\ GoodRecord(2)
    /\ PublishedFor(SuccessSubject, 2)

\* C10: with the destination bucket or the topic unset or empty,
\* lambda_handler raises a configuration error before any record is handled:
\* nothing is downloaded, stored or published and 200 is never returned.
C10_ConfigError ==
    ConfigUnset =>
        /\ calls = <<>> /\ bucket = <<>> /\ published = <<>>
        /\ pc \in {"idle", "raised"}
        /\ pc = "raised" => exc = "ValueError"

C10_Witness ==
    /\ pc = "raised"
    /\ IsSet("DESTINATION_BUCKET_NAME") /\ env["DESTINATION_BUCKET_NAME"] = DestBucket
    /\ ~IsSet("SNS_TOPIC_ARN")
    /\ Len(Recs) = 2 /\ GoodRecord(1)
    /\ calls = <<>>

====
